---- MODULE Spec2Model ----
(***************************************************************************)
(* The reminder bot of src/main.py: the conversational intake and edit     *)
(* flows (aiogram handlers over a per-user FSM), the reminders table, the  *)
(* per-reminder schedule_reminder tasks and the recovery done by main().   *)
(*                                                                         *)
(* Time is counted in ticks of half a day from 2024-01-01T00:00; a         *)
(* datetime is the number of ticks since then.  dateparser is a library    *)
(* outside the repository: what it returns for a phrase is an input of     *)
(* the handler (no timestamp, or any timestamp of the modelled range).     *)
(* Handlers run to completion: every store mutation of the source sits     *)
(* between two awaits, and replies to the user are taken to succeed.       *)
(* The weather service and the Telegram gateway are outside too: whether   *)
(* a lookup answers and whether a delivery is taken are inputs.  The       *)
(* table is the one of the default sqlite database.                        *)
(* Python strings in Cyrillic are written transliterated.                  *)
(***************************************************************************)
EXTENDS Integers, Sequences, FiniteSets, TLC

\* ------------------------------------------------------------------ bounds
NumUsers == 2
MaxReminders == 2
MaxTime == 2
TicksPerDay == 2
CalDays == 731

Users == 1..NumUsers
Times == 0..MaxTime
Names == {"n1", "n2"}
Cities == {"c1"}
FileTypes == {"document", "photo", "audio"}

\* ------------------------------------------------------- values of the code
None == "None"
NoKey == "<no key>"
NoTime == -1
Ezhednevno == "ezhednevno"
Ezhemesyachno == "ezhemesyachno"
WeatherName == "Napominanie o pogode"
ValueError == -2
TypeError == -3
KeyError == "KeyError"
CannotParse == "Ne mogu raspoznat vremya"
Oshibka == "Oshibka"

\* The recurrence keyword a time phrase carries.
KwNone == "no keyword"
KwDay == "kazhdyj den"
KwMonth == "kazhdyj mesyac"
Keywords == {KwNone, KwDay, KwMonth}

\* ------------------------------------------------------------ the calendar
IsLeap(y) == (y % 4 = 0 /\ y % 100 # 0) \/ y % 400 = 0

DaysInYear(y) == IF IsLeap(y) THEN 366 ELSE 365

DaysInMonth(y, m) ==
    IF m = 2 THEN (IF IsLeap(y) THEN 29 ELSE 28)
    ELSE IF m \in {4, 6, 9, 11} THEN 30 ELSE 31

RECURSIVE YearSplit(_, _)
YearSplit(n, y) ==
    IF n < DaysInYear(y) THEN [year |-> y, rest |-> n]
    ELSE YearSplit(n - DaysInYear(y), y + 1)

RECURSIVE MonthSplit(_, _, _)
MonthSplit(n, y, m) ==
    IF n < DaysInMonth(y, m) THEN [month |-> m, day |-> n + 1]
    ELSE MonthSplit(n - DaysInMonth(y, m), y, m + 1)

\* The fields of the datetime t ticks after 2024-01-01T00:00.
DateOf(t) ==
    LET ys == YearSplit(t \div TicksPerDay, 2024)
        ms == MonthSplit(ys.rest, ys.year, 1)
    IN  [year |-> ys.year, month |-> ms.month, day |-> ms.day,
         tod |-> t % TicksPerDay]

RECURSIVE DaysBeforeYear(_)
DaysBeforeYear(y) ==
    IF y <= 2024 THEN 0 ELSE DaysBeforeYear(y - 1) + DaysInYear(y - 1)

RECURSIVE DaysBeforeMonth(_, _)
DaysBeforeMonth(y, m) ==
    IF m <= 1 THEN 0 ELSE DaysBeforeMonth(y, m - 1) + DaysInMonth(y, m - 1)

\* datetime(year, month, day, tod) as ticks.
TicksOf(d) ==
    (DaysBeforeYear(d.year) + DaysBeforeMonth(d.year, d.month) + d.day - 1)
        * TicksPerDay + d.tod

\* datetime.replace(year=y, month=m): the other fields kept; ValueError when
\* the month is not 1..12 or the day does not exist in that month.
replace(t, y, m) ==
    LET d == DateOf(t)
    IN  IF m < 1 \/ m > 12 THEN ValueError
        ELSE IF d.day > DaysInMonth(y, m) THEN ValueError
        ELSE TicksOf([d EXCEPT !.year = y, !.month = m])

\* ----------------------------------------------------------------- state
VARIABLES
    now,         \* datetime.now()
    db,          \* the reminders table: id -> row
    inserts,     \* the number of rows inserted so far
    fsm_state,   \* user -> the FSM state of the chat
    fsm_data,    \* user -> the FSM data of the chat
    tasks,       \* the schedule_reminder tasks of the event loop, as created
    answer,      \* the outcome of the latest update a handler took
    heard,       \* history: user -> the phrase that set fsm_data's time,
                 \*          and the handler that asked for it
    origin,      \* history: id -> the phrase the stored reminder came from
    scope,       \* the inputs the environment draws from in this behaviour
    cal_in,      \* month addition alone: the datetime it is applied to
    cal_out      \* month addition alone: where it ran and what it gave

vars == <<now, db, inserts, fsm_state, fsm_data, tasks, answer, heard,
          origin, scope, cal_in, cal_out>>

EmptyData ==
    [name |-> NoKey, time |-> NoTime, repeat_interval |-> NoKey,
     next_run |-> NoTime, city |-> NoKey, is_weather |-> FALSE, edit_id |-> 0]

\* via: the handler that put the chat into waiting_for_time.
NoPhrase == [kw |-> NoKey, resolved |-> NoTime, via |-> NoKey]

NoResult == [op |-> "none", value |-> NoTime]

NoAnswer == [user |-> 0, handler |-> "none", text |-> "", raised |-> FALSE]

\* The environments explored: each bounds the users who write, how many of
\* them are in a conversation at once, how far the clock runs, the texts they
\* send (names at the name step, renames at the edit step), the number of
\* reminders inserted, the reminders whose delete and edit buttons are
\* pressed, whether uploads are sent outside the file step, whether the
\* outcome of each update is recorded, and, at a delivery, whether the
\* weather service answers and whether the gateway takes the message.
ScopeIntake ==
    [users |-> {1}, chats |-> 1, horizon |-> MaxTime, names |-> {"n1"},
     renames |-> {"n1"}, cities |-> {}, keywords |-> Keywords,
     times |-> Times, file_types |-> FileTypes, max_reminders |-> 1,
     targets |-> {1}, stray |-> FALSE, log |-> FALSE,
     lookups |-> {TRUE}, gateway |-> {TRUE}]

ScopeWeather ==
    [users |-> {1}, chats |-> 1, horizon |-> MaxTime, names |-> {"n1"},
     renames |-> {"n1"}, cities |-> Cities, keywords |-> {KwDay},
     times |-> {1}, file_types |-> {"photo"}, max_reminders |-> 1,
     targets |-> {1}, stray |-> TRUE, log |-> FALSE,
     lookups |-> BOOLEAN, gateway |-> {TRUE}]

ScopeEdit ==
    [users |-> {1}, chats |-> 1, horizon |-> MaxTime, names |-> {"n1"},
     renames |-> Names, cities |-> {}, keywords |-> {KwDay},
     times |-> Times, file_types |-> {}, max_reminders |-> 1,
     targets |-> {1}, stray |-> FALSE, log |-> TRUE,
     lookups |-> {TRUE}, gateway |-> {TRUE}]

ScopeOwners ==
    [users |-> Users, chats |-> 2, horizon |-> 0, names |-> {"n1"},
     renames |-> {"n2"}, cities |-> {}, keywords |-> {KwDay},
     times |-> {MaxTime}, file_types |-> {}, max_reminders |-> 2,
     targets |-> {1}, stray |-> FALSE, log |-> FALSE,
     lookups |-> {TRUE}, gateway |-> {TRUE}]

ScopeRecovery ==
    [users |-> {1}, chats |-> 1, horizon |-> MaxTime, names |-> {"n1"},
     renames |-> {"n1"}, cities |-> {}, keywords |-> {KwDay},
     times |-> {1, MaxTime}, file_types |-> {},
     max_reminders |-> MaxReminders, targets |-> {}, stray |-> FALSE,
     log |-> FALSE, lookups |-> {TRUE}, gateway |-> {TRUE}]

ScopeGateway ==
    [users |-> {1}, chats |-> 1, horizon |-> MaxTime, names |-> {"n1"},
     renames |-> {"n1"}, cities |-> {}, keywords |-> {KwDay},
     times |-> {1}, file_types |-> {}, max_reminders |-> 2,
     targets |-> {1}, stray |-> FALSE, log |-> FALSE,
     lookups |-> {TRUE}, gateway |-> BOOLEAN]

Scopes ==
    {ScopeIntake, ScopeWeather, ScopeEdit, ScopeOwners, ScopeRecovery,
     ScopeGateway}

Init ==
    /\ scope \in Scopes
    /\ now = 0
    /\ db = << >>
    /\ inserts = 0
    /\ fsm_state = [u \in Users |-> None]
    /\ fsm_data = [u \in Users |-> EmptyData]
    /\ tasks = << >>
    /\ answer = NoAnswer
    /\ heard = [u \in Users |-> NoPhrase]
    /\ origin = << >>
    /\ cal_in = 0
    /\ cal_out = NoResult

\* ------------------------------------------------------------- the clock
Tick ==
    /\ now < scope.horizon
    /\ now' = now + 1
    /\ UNCHANGED <<answer, db, inserts, fsm_state, fsm_data, tasks, heard, origin,
                   scope, cal_in, cal_out>>

\* ---------------------------------------------------------- the dispatcher
\* The kinds of message a user sends: the four menu buttons, /start, /skip,
\* any other text, and an upload (document, photo or audio).
\* Handlers are tried in the order the source registers them; the first whose
\* filter passes handles the message.
Route(st, kind) ==
    IF kind = "start" THEN "cmd_start"
    ELSE IF kind = "my_reminders" THEN "show_reminders"
    ELSE IF kind = "today" THEN "show_today_reminders"
    ELSE IF kind = "create" THEN "create_reminder"
    ELSE IF kind = "weather" THEN "create_weather_reminder"
    ELSE IF st = "waiting_for_weather_city" THEN "process_weather_city"
    ELSE IF st = "waiting_for_name" THEN "process_name"
    ELSE IF st = "waiting_for_time" THEN "process_time"
    ELSE IF st = "waiting_for_file" /\ kind = "file" THEN "process_file"
    ELSE IF kind = "skip" THEN "skip_file"
    ELSE IF st = "editing_reminder" THEN "process_edit"
    ELSE IF st = "editing_reminder_time" THEN "process_edit_time"
    ELSE "unhandled"

\* message.text is None for an upload.
KindOf(text) ==
    IF text = "/skip" THEN "skip" ELSE IF text = None THEN "file" ELSE "text"

\* ------------------------------------------------------------- the store
Put(table, row) ==
    [i \in DOMAIN table \cup {row.id} |-> IF i = row.id THEN row ELSE table[i]]

Drop(table, id) == [i \in DOMAIN table \ {id} |-> table[i]]

\* session.get(Reminder, id): the row, or None.
Stored(id) == id \in DOMAIN db

\* The largest id in the table, 0 when it is empty.
MaxId == IF DOMAIN db = {} THEN 0
         ELSE CHOOSE i \in DOMAIN db : \A j \in DOMAIN db : j <= i

\* The primary key of the next insert.  The column is an INTEGER PRIMARY KEY
\* of the default SQLite database, declared without AUTOINCREMENT: a new row
\* gets one more than the largest id in the table, so the id of a deleted
\* last row is given again.
NextId == MaxId + 1

\* show_reminders' query: the user's rows with next_run > now or a
\* repeat_interval, ordered by next_run; here the ids it lists.
show_reminders(u) ==
    {id \in DOMAIN db :
        /\ db[id].user_id = u
        /\ (db[id].next_run > now \/ db[id].repeat_interval # None)}

\* ------------------------------------------------------------ the scheduler
\* asyncio.create_task(schedule_reminder(reminder)): the task holds the
\* reminder object it was given, detached from its session.
\* sent counts the task's calls of send_reminder, out is what the last of
\* them did.
NoOut ==
    [method |-> "none", text |-> [head |-> "", about |-> "", body |-> ""],
     printed |-> FALSE, raised |-> FALSE]

NewTask(reminder) ==
    [rem |-> reminder, pc |-> "created", sent |-> 0, out |-> NoOut]

\* get_weather: the report, or a text starting with "Oshibka" when the
\* service answers with another code than 200 or the request raises.
get_weather(city, found) == IF found THEN "Pogoda" ELSE Oshibka

\* A send_reminder with no except clause: what the gateway raises reaches the
\* caller.
send_reminder_uncaught(reminder, found, taken) ==
    [method |-> "send_message",
     text |-> [head |-> "Napominanie", about |-> reminder.name, body |-> ""],
     printed |-> FALSE, raised |-> ~taken]

\* send_reminder: the gateway method it calls and the text it passes (as the
\* message or as the caption); printed when the call raised, which the
\* except clause around the whole body catches, so that nothing is raised to
\* the caller.  No method is called for a file of another type.
send_reminder(reminder, found, taken) ==
    LET method ==
            IF reminder.is_weather THEN "send_message"
            ELSE IF reminder.file_id # None
            THEN IF reminder.file_type = "photo" THEN "send_photo"
                 ELSE IF reminder.file_type = "document" THEN "send_document"
                 ELSE IF reminder.file_type = "audio" THEN "send_audio"
                 ELSE "none"
            ELSE "send_message"
        text ==
            IF reminder.is_weather
            THEN [head |-> "Napominanie o pogode v", about |-> reminder.city,
                  body |-> get_weather(reminder.city, found)]
            ELSE [head |-> "Napominanie", about |-> reminder.name,
                  body |-> ""]
    IN  [method |-> method, text |-> text,
         printed |-> method # "none" /\ ~taken, raised |-> FALSE]

\* The head of schedule_reminder's loop: sleep when next_run is ahead, else
\* leave the loop.
LoopHead(reminder) ==
    IF reminder.next_run - now > 0 THEN "sleeping" ELSE "done"

\* The reminder after the recurrence step that follows a delivery; its
\* next_run is ValueError when replace() raises.
Advance(reminder) ==
    IF reminder.repeat_interval = "daily"
    THEN [reminder EXCEPT !.next_run = @ + TicksPerDay]
    ELSE IF reminder.repeat_interval = "monthly"
    THEN [reminder EXCEPT !.next_run =
             replace(@, DateOf(@).year, DateOf(@).month + 1)]
    ELSE reminder

\* save_and_schedule: insert the row built from the FSM data, then create its
\* task.  data['time'] and data['next_run'] must be present (else KeyError,
\* which the callers below take before calling).  serial is history, not a
\* column: the ordinal of the insert, which tells apart two rows that were
\* given the same id.
save_and_schedule(user_id, data, file_id, file_type) ==
    LET reminder ==
            [id |-> NextId,
             serial |-> inserts + 1,
             user_id |-> user_id,
             name |-> IF data.name = NoKey THEN WeatherName ELSE data.name,
             time |-> data.time,
             repeat_interval |->
                 IF data.repeat_interval = NoKey THEN None
                 ELSE data.repeat_interval,
             is_weather |-> data.is_weather,
             city |-> IF data.city = NoKey THEN None ELSE data.city,
             file_id |-> file_id,
             file_type |-> file_type,
             next_run |-> data.next_run]
    IN  /\ db' = Put(db, reminder)
        /\ inserts' = inserts + 1
        /\ tasks' = Append(tasks, NewTask(reminder))

\* state.clear()
Clear(u) ==
    /\ fsm_state' = [fsm_state EXCEPT ![u] = None]
    /\ fsm_data' = [fsm_data EXCEPT ![u] = EmptyData]
    /\ heard' = [heard EXCEPT ![u] = NoPhrase]

\* ------------------------------------------------------- the intake flow
\* The environment's bound on conversations in progress: user u may open one.
CanChat(u) ==
    \/ fsm_state[u] # None
    \/ Cardinality({v \in Users : fsm_state[v] # None}) < scope.chats

\* What the handler answers to user u last (message.answer, callback.answer,
\* or save_and_schedule's send_message), where the behaviour keeps the record.
Says(u, handler, text) ==
    answer' = IF scope.log
              THEN [user |-> u, handler |-> handler, text |-> text,
                    raised |-> FALSE]
              ELSE NoAnswer

\* The handler ends with an exception it does not catch: nothing it did to
\* the FSM before stays undone, nothing after happens, the dispatcher logs.
Raises(u, handler, exception) ==
    answer' = IF scope.log
              THEN [user |-> u, handler |-> handler, text |-> exception,
                    raised |-> TRUE]
              ELSE NoAnswer

create_reminder(u) ==
    /\ CanChat(u)
    /\ Route(fsm_state[u], "create") = "create_reminder"
    /\ fsm_state' = [fsm_state EXCEPT ![u] = "waiting_for_name"]
    /\ Says(u, "create_reminder", "Vvedite nazvanie napominaniya")
    /\ UNCHANGED <<now, db, inserts, fsm_data, tasks, heard, origin,
                   scope, cal_in, cal_out>>

create_weather_reminder(u) ==
    /\ CanChat(u)
    /\ Route(fsm_state[u], "weather") = "create_weather_reminder"
    /\ fsm_state' = [fsm_state EXCEPT ![u] = "waiting_for_weather_city"]
    /\ Says(u, "create_weather_reminder", "Vvedite gorod")
    /\ UNCHANGED <<now, db, inserts, fsm_data, tasks, heard, origin,
                   scope, cal_in, cal_out>>

\* city: message.text; found: whether get_weather(city) answered without an
\* error text.
process_weather_city(u, city, found) ==
    /\ Route(fsm_state[u], KindOf(city)) = "process_weather_city"
    /\ IF get_weather(city, found) = Oshibka
       THEN /\ Says(u, "process_weather_city", Oshibka)
            /\ UNCHANGED <<fsm_state, fsm_data, heard>>
       ELSE /\ fsm_data' = [fsm_data EXCEPT ![u].city = city,
                                            ![u].is_weather = TRUE]
            /\ fsm_state' = [fsm_state EXCEPT ![u] = "waiting_for_time"]
            /\ heard' = [heard EXCEPT ![u].via = "process_weather_city"]
            /\ Says(u, "process_weather_city", "Vvedite vremya")
    /\ UNCHANGED <<now, db, inserts, tasks, origin, scope, cal_in, cal_out>>

process_name(u, text) ==
    /\ Route(fsm_state[u], KindOf(text)) = "process_name"
    /\ fsm_data' = [fsm_data EXCEPT ![u].name = text]
    /\ fsm_state' = [fsm_state EXCEPT ![u] = "waiting_for_time"]
    /\ heard' = [heard EXCEPT ![u].via = "process_name"]
    /\ Says(u, "process_name", "Vvedite vremya")
    /\ UNCHANGED <<now, db, inserts, tasks, origin, scope, cal_in, cal_out>>

\* Python's `x or y` is x when x is truthy; a non-empty string is truthy.
Truthy(s) == s # ""

\* Lines 212-220: the recurrence of a phrase carrying keyword kw.  The
\* membership test is the right operand of `or`, whose left operand is a
\* non-empty literal; the capitalised literal is sought in the lowered text.
detect_repeat(kw) ==
    IF Truthy(KwDay) \/ FALSE THEN Ezhednevno
    ELSE IF Truthy(KwMonth) \/ FALSE THEN Ezhemesyachno
    ELSE None

\* Lines 237-245: the correction of a parsed time that is already past.
adjust(parsed_time, repeat, at) ==
    IF parsed_time < at /\ repeat # None
    THEN IF repeat = "daily" THEN parsed_time + TicksPerDay
         ELSE IF repeat = "monthly"
         THEN LET p == replace(parsed_time, DateOf(at).year,
                               DateOf(at).month + 1)
              IN  IF p = ValueError THEN ValueError
                  ELSE IF p < at
                  THEN replace(p, DateOf(p).year, DateOf(p).month + 1)
                  ELSE p
         ELSE parsed_time
    ELSE parsed_time

\* A handler that takes whatever dateparser gave for a timestamp.
IsParsedAlways(parsed_time) == TRUE

\* `if parsed_time` (`if not parsed_time`): dateparser gave a timestamp.
IsParsed(parsed_time) == parsed_time # NoTime

\* kw: the keyword in the phrase, None when the message is an upload (lower()
\* of None raises); parsed: what dateparser.parse gives for the phrase after
\* the "kazhdyj den" keyword is cut out of it.
process_time(u, kw, parsed) ==
    /\ Route(fsm_state[u], KindOf(kw)) = "process_time"
    /\ LET data == fsm_data[u]
           repeat == detect_repeat(kw)
           parsed_time == adjust(parsed, repeat, now)
           updated == [data EXCEPT !.time = parsed_time,
                                   !.repeat_interval = repeat,
                                   !.next_run = parsed_time]
       IN  IF kw = None
           THEN /\ Raises(u, "process_time", "AttributeError")
                /\ UNCHANGED <<db, inserts, fsm_state, fsm_data, tasks, heard,
                               origin>>
           ELSE IF ~IsParsed(parsed)
           THEN /\ Says(u, "process_time", CannotParse)
                /\ UNCHANGED <<db, inserts, fsm_state, fsm_data, tasks, heard,
                               origin>>
           ELSE IF parsed_time = ValueError
           THEN /\ Raises(u, "process_time", "ValueError")
                /\ UNCHANGED <<db, inserts, fsm_state, fsm_data, tasks, heard,
                               origin>>
           ELSE IF data.is_weather
           THEN /\ inserts < scope.max_reminders
                /\ save_and_schedule(u, updated, None, None)
                /\ origin' = Put(origin, [id |-> NextId, kw |-> kw,
                                         resolved |-> parsed,
                                         via |-> heard[u].via])
                /\ Clear(u)
                /\ Says(u, "process_time", "Napominanie o pogode sozdano")
           ELSE /\ fsm_data' = [fsm_data EXCEPT ![u] = updated]
                /\ fsm_state' = [fsm_state EXCEPT ![u] = "waiting_for_file"]
                /\ heard' = [heard EXCEPT ![u].kw = kw,
                                          ![u].resolved = parsed]
                /\ Says(u, "process_time", "Prikrepite fajl ili /skip")
                /\ UNCHANGED <<db, inserts, tasks, origin>>
    /\ UNCHANGED <<now, scope, cal_in, cal_out>>

\* The update_data(file_id, file_type) of the source is wiped by the
\* state.clear() that ends the handler.
process_file(u, file_id, file_type) ==
    /\ Route(fsm_state[u], "file") = "process_file"
    /\ IF fsm_data[u].time = NoTime \/ fsm_data[u].next_run = NoTime
       THEN /\ Raises(u, "process_file", KeyError)
            /\ UNCHANGED <<db, inserts, fsm_state, fsm_data, tasks, heard,
                           origin>>
       ELSE /\ inserts < scope.max_reminders
            /\ save_and_schedule(u, fsm_data[u], file_id, file_type)
            /\ origin' = Put(origin, [id |-> NextId] @@ heard[u])
            /\ Clear(u)
            /\ Says(u, "process_file", "Napominanie sozdano")
    /\ UNCHANGED <<now, scope, cal_in, cal_out>>

\* Registered with no state filter: takes /skip in every state that no
\* earlier handler takes.  KeyError when the data holds no time.
skip_file(u) ==
    /\ Route(fsm_state[u], "skip") = "skip_file"
    /\ IF fsm_data[u].time = NoTime \/ fsm_data[u].next_run = NoTime
       THEN /\ Raises(u, "skip_file", KeyError)
            /\ UNCHANGED <<db, inserts, fsm_state, fsm_data, tasks, heard,
                           origin>>
       ELSE /\ inserts < scope.max_reminders
            /\ save_and_schedule(u, fsm_data[u], None, None)
            /\ origin' = Put(origin, [id |-> NextId] @@ heard[u])
            /\ Clear(u)
            /\ Says(u, "skip_file", "Napominanie sozdano")
    /\ UNCHANGED <<now, scope, cal_in, cal_out>>

\* ------------------------------------------------------- delete and edit
\* The test both buttons make before they act: the row exists and is the
\* requester's.
Owns(u, id) == Stored(id) /\ db[id].user_id = u

delete_reminder(u, id) ==
    /\ IF Owns(u, id)
       THEN /\ db' = Drop(db, id)
            /\ origin' = Drop(origin, id)
            /\ Says(u, "delete_reminder", "Napominanie udaleno")
       ELSE /\ Says(u, "delete_reminder", "Oshibka udaleniya")
            /\ UNCHANGED <<db, origin>>
    /\ UNCHANGED <<now, inserts, fsm_state, fsm_data, tasks, heard,
                   scope, cal_in, cal_out>>

edit_reminder(u, id) ==
    /\ CanChat(u)
    /\ IF Owns(u, id)
       THEN /\ fsm_data' = [fsm_data EXCEPT ![u].edit_id = id]
            /\ fsm_state' = [fsm_state EXCEPT ![u] = "editing_reminder"]
            /\ Says(u, "edit_reminder", "Vvedite novoe nazvanie ili /skip")
       ELSE /\ Says(u, "edit_reminder", "Oshibka redaktirovaniya")
            /\ UNCHANGED <<fsm_state, fsm_data>>
    /\ UNCHANGED <<now, db, inserts, tasks, heard, origin, scope, cal_in, cal_out>>

\* /skip never reaches this handler (skip_file is registered before it), so
\* its test `message.text != "/skip"` passes whenever it runs.
process_edit(u, text) ==
    /\ Route(fsm_state[u], KindOf(text)) = "process_edit"
    /\ LET id == fsm_data[u].edit_id
       IN  IF text # "/skip" /\ Stored(id)
           THEN db' = [db EXCEPT ![id].name = text]
           ELSE UNCHANGED db
    /\ fsm_state' = [fsm_state EXCEPT ![u] = "editing_reminder_time"]
    /\ Says(u, "process_edit", "Vvedite novoe vremya ili /skip")
    /\ UNCHANGED <<now, inserts, fsm_data, tasks, heard, origin,
                   scope, cal_in, cal_out>>

\* parsed: what dateparser.parse gives for the message, TypeError when the
\* message is an upload.  The handler catches that, and the assignment that
\* raises when the reminder was deleted meanwhile.
process_edit_time(u, parsed) ==
    /\ Route(fsm_state[u], IF parsed = TypeError THEN "file" ELSE "text")
           = "process_edit_time"
    /\ LET id == fsm_data[u].edit_id
       IN  IF parsed # TypeError /\ IsParsed(parsed) /\ Stored(id)
           THEN /\ db' = [db EXCEPT ![id].time = parsed,
                                    ![id].next_run = parsed]
                /\ origin' = [origin EXCEPT ![id].resolved = parsed]
                /\ Says(u, "process_edit_time", "Napominanie obnovleno")
           ELSE /\ Says(u, "process_edit_time",
                        IF parsed = NoTime THEN "Napominanie obnovleno"
                        ELSE "Oshibka obnovleniya")
                /\ UNCHANGED <<db, origin>>
    /\ Clear(u)
    /\ UNCHANGED <<now, inserts, tasks, scope, cal_in, cal_out>>

\* ------------------------------------------------------ schedule_reminder
\* The task's first run: the head of the loop.
TaskStart(i) ==
    /\ tasks[i].pc = "created"
    /\ tasks' = [tasks EXCEPT ![i].pc = LoopHead(tasks[i].rem)]
    /\ UNCHANGED <<answer, now, db, inserts, fsm_state, fsm_data, heard, origin,
                   scope, cal_in, cal_out>>

\* asyncio.sleep(delay) is over: send_reminder(reminder) is called and waits
\* for the gateway.
TaskWake(i) ==
    /\ tasks[i].pc = "sleeping"
    /\ now >= tasks[i].rem.next_run
    /\ tasks' = [tasks EXCEPT ![i].pc = "sending", ![i].sent = @ + 1]
    /\ UNCHANGED <<answer, now, db, inserts, fsm_state, fsm_data, heard, origin,
                   scope, cal_in, cal_out>>

\* send_reminder is over, the weather service having answered or not and
\* the gateway having taken the message or not.  An exception out of it would
\* end the task; else the recurrence step on the task's own object, a commit
\* of a session that holds no object, and the head of the loop again.
TaskAfterSend(i, found, taken) ==
    /\ tasks[i].pc = "sending"
    /\ LET reminder == tasks[i].rem
           out == send_reminder(reminder, found, taken)
       IN  IF out.raised
           THEN tasks' = [tasks EXCEPT ![i].pc = "failed", ![i].out = out]
           ELSE IF reminder.repeat_interval # None
           THEN IF Advance(reminder).next_run = ValueError
                THEN tasks' = [tasks EXCEPT ![i].pc = "failed",
                                            ![i].out = out]
                ELSE tasks' = [tasks EXCEPT
                                  ![i].rem = Advance(reminder),
                                  ![i].pc = LoopHead(Advance(reminder)),
                                  ![i].out = out]
           ELSE tasks' = [tasks EXCEPT ![i].pc = "done", ![i].out = out]
    /\ UNCHANGED <<answer, now, db, inserts, fsm_state, fsm_data, heard, origin,
                   scope, cal_in, cal_out>>

\* ------------------------------------------------------------------ main
\* A recovery that also arms the recurring reminders whose next_run is past.
RecoverableOrRecurring(row) ==
    row.next_run > now \/ row.repeat_interval # None

\* The rows main() arms a task for.
Recoverable(row) == row.next_run > now

RECURSIVE Recovered(_)
Recovered(k) ==
    IF k = 0 THEN << >>
    ELSE IF Stored(k) /\ Recoverable(db[k])
    THEN Append(Recovered(k - 1), NewTask(db[k]))
    ELSE Recovered(k - 1)

\* The process stops and starts again: the tasks and the FSM memory of the
\* old process are gone, main() arms the stored reminders.
Restart ==
    /\ tasks' = Recovered(MaxId)
    /\ fsm_state' = [u \in Users |-> None]
    /\ fsm_data' = [u \in Users |-> EmptyData]
    /\ heard' = [u \in Users |-> NoPhrase]
    /\ UNCHANGED <<answer, now, db, inserts, origin, scope, cal_in, cal_out>>

\* The text of the uploads the environment sends outside the file step.
Uploads == IF scope.stray THEN {None} ELSE {}

Next ==
    \/ Tick
    \/ \E u \in scope.users : create_reminder(u)
    \/ \E u \in scope.users : create_weather_reminder(u)
    \/ \E u \in scope.users, city \in scope.cities \cup Uploads,
          found \in BOOLEAN : process_weather_city(u, city, found)
    \/ \E u \in scope.users, text \in scope.names \cup Uploads :
           process_name(u, text)
    \/ \E u \in scope.users, kw \in scope.keywords \cup Uploads,
          parsed \in scope.times \cup {NoTime} : process_time(u, kw, parsed)
    \/ \E u \in scope.users, file_type \in scope.file_types :
           process_file(u, "file", file_type)
    \/ \E u \in scope.users : skip_file(u)
    \/ \E u \in scope.users, id \in scope.targets :
           delete_reminder(u, id)
    \/ \E u \in scope.users, id \in scope.targets :
           edit_reminder(u, id)
    \/ \E u \in scope.users, text \in scope.renames \cup Uploads :
           process_edit(u, text)
    \/ \E u \in scope.users,
          parsed \in scope.times \cup {NoTime}
                     \cup {TypeError : x \in Uploads} :
           process_edit_time(u, parsed)
    \/ \E i \in DOMAIN tasks : TaskStart(i)
    \/ \E i \in DOMAIN tasks : TaskWake(i)
    \/ \E i \in DOMAIN tasks, found \in scope.lookups,
          taken \in scope.gateway : TaskAfterSend(i, found, taken)
    \/ Restart

Spec == Init /\ [][Next]_vars

\* --------------------------------------------------- month addition alone
\* The two places that add a month, applied to any datetime of CalDays days
\* from 2024-01-01: a reminder tagged 'monthly' in schedule_reminder, and a
\* past parsed time with repeat 'monthly' in process_time, now being a tick
\* or a month of days later.
CalTimes == 0..(CalDays * TicksPerDay - 1)

InitMonth ==
    /\ scope = ScopeIntake
    /\ cal_in \in CalTimes
    /\ now \in {cal_in + 1, cal_in + 31 * TicksPerDay}
    /\ db = << >>
    /\ inserts = 0
    /\ fsm_state = [u \in Users |-> None]
    /\ fsm_data = [u \in Users |-> EmptyData]
    /\ tasks = << >>
    /\ answer = NoAnswer
    /\ heard = [u \in Users |-> NoPhrase]
    /\ origin = << >>
    /\ cal_out = NoResult

MonthInSchedule ==
    /\ cal_out = NoResult
    /\ cal_out' =
           [op |-> "schedule_reminder",
            value |-> Advance([next_run |-> cal_in,
                               repeat_interval |-> "monthly"]).next_run]
    /\ UNCHANGED <<answer, now, db, inserts, fsm_state, fsm_data, tasks, heard,
                   origin, scope, cal_in>>

MonthInProcessTime ==
    /\ cal_out = NoResult
    /\ cal_out' = [op |-> "process_time",
                   value |-> adjust(cal_in, "monthly", now)]
    /\ UNCHANGED <<answer, now, db, inserts, fsm_state, fsm_data, tasks, heard,
                   origin, scope, cal_in>>

NextMonth == MonthInSchedule \/ MonthInProcessTime

SpecMonth == InitMonth /\ [][NextMonth]_vars

\* ============================================================ the claims
\* The row that reminder (a task's object) was loaded from is still stored:
\* the id is in the table and names that insert, not a later one.
Holds(reminder) ==
    /\ Stored(reminder.id)
    /\ db[reminder.id].serial = reminder.serial

\* The tasks that are armed or firing for the stored reminder id.
LiveTasks(id) ==
    {i \in DOMAIN tasks :
        /\ tasks[i].rem.id = id
        /\ tasks[i].rem.serial = db[id].serial
        /\ tasks[i].pc \in {"created", "sleeping", "sending"}}

\* This step is task i calling send_reminder.
Fires(i) ==
    /\ i \in DOMAIN tasks'
    /\ tasks[i].pc = "sleeping"
    /\ tasks'[i].pc = "sending"

\* This step is task i coming back from send_reminder.
Delivered(i) ==
    /\ i \in DOMAIN tasks'
    /\ tasks[i].pc = "sending"
    /\ tasks'[i].pc \in {"sleeping", "done", "failed"}

IsDailyTag(r) == r \in {"daily", Ezhednevno}

IsMonthlyTag(r) == r \in {"monthly", Ezhemesyachno}

\* One calendar month after t as the specification wants it: the same day of
\* the next month (January of the next year after December), and the first
\* day of the month after that when the next month has no such day.
AddMonthRolling(t) ==
    LET d == DateOf(t)
        y1 == IF d.month = 12 THEN d.year + 1 ELSE d.year
        m1 == IF d.month = 12 THEN 1 ELSE d.month + 1
        y2 == IF m1 = 12 THEN y1 + 1 ELSE y1
        m2 == IF m1 = 12 THEN 1 ELSE m1 + 1
    IN  IF d.day <= DaysInMonth(y1, m1)
        THEN TicksOf([d EXCEPT !.year = y1, !.month = m1])
        ELSE TicksOf([d EXCEPT !.year = y2, !.month = m2, !.day = 1])

\* C1: once the owner's delete of a reminder is committed, no task calls
\* send_reminder for that reminder: every call is for a stored reminder.
C1_NoSendAfterDelete ==
    [][\A i \in DOMAIN tasks : Fires(i) => Holds(tasks[i].rem)]_vars

\* C2: an edit of a reminder's time leaves exactly one wait armed for it, a
\* wait for the new next_run, and no delivery happens at a next_run that is
\* no longer the stored one.
C2_EditRearms ==
    [][/\ \A id \in DOMAIN db :
            (id \in DOMAIN db' /\ db'[id].next_run # db[id].next_run)
                => \E i \in DOMAIN tasks' :
                       /\ tasks'[i].rem.id = id
                       /\ tasks'[i].rem.serial = db'[id].serial
                       /\ tasks'[i].pc \in {"created", "sleeping"}
                       /\ tasks'[i].rem.next_run = db'[id].next_run
                       /\ \A j \in DOMAIN tasks' :
                              (tasks'[j].rem.id = id /\ j # i)
                                  => tasks'[j].pc \in {"done", "failed"}
       /\ \A i \in DOMAIN tasks :
            (Fires(i) /\ Holds(tasks[i].rem))
                => tasks[i].rem.next_run = db[tasks[i].rem.id].next_run
      ]_vars

\* C3: the stored recurrence is daily exactly for a phrase with the
\* every-day keyword, monthly exactly for one with the every-month keyword,
\* and null for a phrase with neither.
C3_TagFollowsKeyword ==
    \A id \in DOMAIN db :
        /\ IsDailyTag(db[id].repeat_interval) <=> origin[id].kw = KwDay
        /\ IsMonthlyTag(db[id].repeat_interval) <=> origin[id].kw = KwMonth
        /\ origin[id].kw = KwNone => db[id].repeat_interval = None

\* C4: a reminder is created with next_run equal to the timestamp its phrase
\* resolved to, and later than the time of its creation.
C4_CreatedInFuture ==
    [][\A id \in DOMAIN db' \ DOMAIN db :
           /\ db'[id].next_run = origin'[id].resolved
           /\ db'[id].next_run > now]_vars

\* C5: when process_time takes a recurring phrase that resolves to a past
\* timestamp, what it stores is one recurrence unit later: a day for the
\* every-day keyword (with the daily tag), a calendar month for every-month.
C5_PastDueAdvanced ==
    [][\A u \in Users :
           (/\ fsm_state[u] = "waiting_for_time"
            /\ fsm_state'[u] = "waiting_for_file"
            /\ heard'[u].kw \in {KwDay, KwMonth}
            /\ heard'[u].resolved < now)
               => /\ heard'[u].kw = KwDay =>
                      /\ fsm_data'[u].next_run
                             = heard'[u].resolved + TicksPerDay
                      /\ IsDailyTag(fsm_data'[u].repeat_interval)
                  /\ heard'[u].kw = KwMonth =>
                      /\ fsm_data'[u].next_run
                             = AddMonthRolling(heard'[u].resolved)
                      /\ IsMonthlyTag(fsm_data'[u].repeat_interval)
      ]_vars

\* C6: every delivery of a reminder created with the every-day keyword
\* leaves the reminder stored, with next_run one day after the occurrence
\* delivered, in the table and in the task.
C6_DailyAdvances ==
    [][\A i \in DOMAIN tasks :
           (/\ Delivered(i)
            /\ Holds(tasks[i].rem)
            /\ origin[tasks[i].rem.id].kw = KwDay)
               => /\ tasks[i].rem.id \in DOMAIN db'
                  /\ db'[tasks[i].rem.id].next_run
                         = tasks[i].rem.next_run + TicksPerDay
                  /\ tasks'[i].rem.next_run
                         = tasks[i].rem.next_run + TicksPerDay
      ]_vars

\* C7: adding a month never raises and gives, for every datetime, the same
\* day of the next month, or the first day of the month after it when that
\* day does not exist; December goes to January of the next year.
C7_MonthAdditionRolls ==
    cal_out.op # "none" =>
        /\ cal_out.value # ValueError
        /\ cal_out.op = "schedule_reminder"
               => cal_out.value = AddMonthRolling(cal_in)

\* C8: recovery arms one task for every stored reminder whose next_run is
\* ahead of now, no second task for any, and none for a reminder whose
\* next_run is not ahead, recurring or not.
C8_RecoveryArmsFutureOnce ==
    [][Restart =>
          /\ \A id \in DOMAIN db :
                 Cardinality({i \in DOMAIN tasks' : tasks'[i].rem.id = id})
                     = IF db[id].next_run > now THEN 1 ELSE 0
          /\ \A i \in DOMAIN tasks' :
                 /\ Stored(tasks'[i].rem.id)
                 /\ tasks'[i] = NewTask(db[tasks'[i].rem.id])
      ]_vars

\* C8 witness: a restarted process holding a reminder still ahead, armed
\* once, and a recurring reminder already past, not armed.
C8_Witness ==
    \E a \in DOMAIN db, b \in DOMAIN db :
        /\ db[a].next_run > now
        /\ db[b].next_run <= now
        /\ db[b].repeat_interval # None
        /\ tasks = <<NewTask(db[a])>>

\* C9: every stored reminder that is active (next_run ahead of now, or a
\* recurrence set) has exactly one task armed or firing for it.
C9_OneLiveTimer ==
    \A id \in DOMAIN db :
        (db[id].next_run > now \/ db[id].repeat_interval # None)
            => Cardinality(LiveTasks(id)) = 1

\* C10: a reminder created from a phrase with no recurrence keyword, once
\* delivered and its next_run past, is not in its owner's active list.
C10_DeliveredOneOffUnlisted ==
    \A i \in DOMAIN tasks :
        (/\ tasks[i].sent > 0
         /\ tasks[i].pc # "sending"
         /\ Holds(tasks[i].rem)
         /\ origin[tasks[i].rem.id].kw = KwNone
         /\ db[tasks[i].rem.id].next_run <= now)
            => tasks[i].rem.id
                   \notin show_reminders(db[tasks[i].rem.id].user_id)

\* This step is a delete or an edit message of the owner of stored row id.
OwnerRequest(id) ==
    LET u == db[id].user_id
    IN  \/ delete_reminder(u, id)
        \/ \E text \in scope.renames \cup Uploads : process_edit(u, text)
        \/ \E parsed \in scope.times \cup {NoTime} : process_edit_time(u, parsed)

\* C11: a stored reminder is deleted, or its name, time or next_run changed,
\* only by a request of the user it belongs to; a delete or edit button
\* pressed by another user, or for an id that is not stored, changes nothing.
C11_OwnerOnlyMutates ==
    [][/\ \A id \in DOMAIN db :
            (\/ id \notin DOMAIN db'
             \/ db'[id].name # db[id].name
             \/ db'[id].time # db[id].time
             \/ db'[id].next_run # db[id].next_run)
                => OwnerRequest(id)
       /\ \A u \in Users, id \in scope.targets :
            (~Owns(u, id) /\ (delete_reminder(u, id) \/ edit_reminder(u, id)))
                => UNCHANGED <<db, fsm_state, fsm_data, tasks>>
      ]_vars

\* C12: a time phrase that yields no timestamp commits nothing.  process_time
\* answers that it cannot tell the time, creates no reminder and no task,
\* writes nothing into the FSM data and leaves the chat waiting for the time;
\* process_edit_time leaves time and next_run of every stored reminder as
\* they were.
C12_UnparsedCommitsNothing ==
    [][\A u \in Users :
           /\ (\E kw \in Keywords : process_time(u, kw, NoTime))
                  => /\ UNCHANGED <<db, inserts, tasks, fsm_state, fsm_data>>
                     /\ fsm_state'[u] = "waiting_for_time"
           /\ (answer' # answer /\ answer'.user = u
                   /\ answer'.text = CannotParse)
                  => /\ UNCHANGED <<db, inserts, tasks, fsm_state, fsm_data>>
                     /\ fsm_state'[u] = "waiting_for_time"
           /\ process_edit_time(u, NoTime)
                  => \A id \in DOMAIN db :
                         /\ id \in DOMAIN db'
                         /\ db'[id].time = db[id].time
                         /\ db'[id].next_run = db[id].next_run
      ]_vars

\* C12 witness: user 1 gave a name and then a phrase with no timestamp; the
\* chat still waits for the time, the data holds no time, nothing is stored.
C12_Witness ==
    /\ answer = [user |-> 1, handler |-> "process_time",
                 text |-> CannotParse, raised |-> FALSE]
    /\ fsm_state[1] = "waiting_for_time"
    /\ fsm_data[1].name \in Names
    /\ fsm_data[1].time = NoTime
    /\ fsm_data[1].next_run = NoTime
    /\ fsm_data[1].repeat_interval = NoKey
    /\ db = << >>
    /\ tasks = << >>

\* C13: a task armed when next_run is not ahead of now (delay <= 0) calls
\* send_reminder at once; it does not end without delivering.
C13_DueAtArmingFires ==
    [][\A i \in DOMAIN tasks :
           (/\ i \in DOMAIN tasks'
            /\ tasks[i].pc = "created"
            /\ tasks'[i].pc # "created"
            /\ tasks[i].rem.next_run - now <= 0)
               => /\ tasks'[i].pc = "sending"
                  /\ tasks'[i].sent = 1
      ]_vars

\* C14: after each delivery of a recurring reminder the advanced next_run is
\* persisted: the stored next_run is the one the task holds, and it is the
\* next occurrence, later than the one just delivered.
C14_AdvancePersisted ==
    [][\A i \in DOMAIN tasks :
           (/\ Delivered(i)
            /\ Holds(tasks[i].rem)
            /\ tasks[i].rem.repeat_interval # None)
               => /\ tasks[i].rem.id \in DOMAIN db'
                  /\ db'[tasks[i].rem.id].next_run = tasks'[i].rem.next_run
                  /\ db'[tasks[i].rem.id].next_run > tasks[i].rem.next_run
      ]_vars

\* C15: a reminder created from a phrase with a recurrence keyword is armed
\* again after every delivery: as long as it is stored, the task that
\* delivered it goes back to waiting and never ends.
C15_RecurringRearmed ==
    [][\A i \in DOMAIN tasks :
           (/\ Delivered(i)
            /\ Holds(tasks[i].rem)
            /\ tasks[i].rem.id \in DOMAIN db'
            /\ origin[tasks[i].rem.id].kw \in {KwDay, KwMonth})
               => tasks'[i].pc = "sleeping"
      ]_vars

\* C16: a delivery whose gateway call fails is contained.  The task goes on
\* to the recurrence step as after a successful send (its next_run advanced
\* and the loop head taken, or the loop left when it has no recurrence), and
\* no other task is ended, delayed or changed by it.
C16_SendErrorContained ==
    [][\A i \in DOMAIN tasks :
           (/\ Delivered(i)
            /\ tasks'[i].out.printed \/ tasks'[i].out.raised)
               => /\ LET reminder == tasks[i].rem
                     IN  IF reminder.repeat_interval = None
                         THEN /\ tasks'[i].pc = "done"
                              /\ tasks'[i].rem = reminder
                         ELSE Advance(reminder).next_run # ValueError
                                  => /\ tasks'[i].rem = Advance(reminder)
                                     /\ tasks'[i].pc
                                            = LoopHead(Advance(reminder))
                  /\ \A j \in DOMAIN tasks :
                         j # i => (j \in DOMAIN tasks' /\ tasks'[j] = tasks[j])
      ]_vars

\* C16 witness: the gateway refused the delivery of one task, which went
\* through its recurrence step and is not failed, and the task of another
\* reminder has delivered.
C16_Witness ==
    \E i \in DOMAIN tasks, j \in DOMAIN tasks :
        /\ i # j
        /\ tasks[i].out.printed
        /\ tasks[i].sent = 1
        /\ tasks[i].rem.repeat_interval # None
        /\ tasks[i].pc = "done"
        /\ tasks[j].sent = 1
        /\ tasks[j].pc = "done"
        /\ ~tasks[j].out.printed
        /\ tasks[j].out.method = "send_message"

\* C17: the weather is looked up when the reminder is delivered, and when the
\* lookup fails the delivery is still one text message, carrying the error
\* notice, and a weather reminder created with a recurrence keyword still
\* moves on to its next occurrence and waits for it.
C17_WeatherFailureStillDelivers ==
    [][\A i \in DOMAIN tasks :
           (/\ Delivered(i)
            /\ tasks[i].rem.is_weather
            /\ tasks'[i].out.text.body = Oshibka)
               => /\ tasks'[i].out.method = "send_message"
                  /\ tasks'[i].out.text.about = tasks[i].rem.city
                  /\ ~tasks'[i].out.raised
                  /\ (/\ Holds(tasks[i].rem)
                      /\ origin[tasks[i].rem.id].kw \in {KwDay, KwMonth})
                         => /\ tasks'[i].rem.next_run > tasks[i].rem.next_run
                            /\ tasks'[i].pc = "sleeping"
      ]_vars

\* C18: every stored reminder has a city exactly when it is a weather
\* reminder, and no stored weather reminder has an attachment.
C18_WeatherShape ==
    \A id \in DOMAIN db :
        /\ db[id].city # None <=> db[id].is_weather
        /\ ~(db[id].is_weather
                /\ (db[id].file_id # None \/ db[id].file_type # None))

\* C19: in the edit flow /skip keeps the current value and goes on.  Sent at
\* the name step or at the time step it changes no stored reminder, creates
\* none, raises no error, and moves the chat on: from the name step to the
\* time step, from the time step to no state.
C19_EditSkipKeeps ==
    [][\A u \in Users :
           (/\ fsm_state[u] \in {"editing_reminder", "editing_reminder_time"}
            /\ skip_file(u))
               => /\ UNCHANGED <<db, inserts, tasks>>
                  /\ ~answer'.raised
                  /\ fsm_state'[u] =
                         IF fsm_state[u] = "editing_reminder"
                         THEN "editing_reminder_time" ELSE None
      ]_vars

\* C20: a reminder entered through the plain flow (create_reminder, then the
\* name, then the time) is stored with is_weather false and no city.
C20_PlainFlowNotWeather ==
    \A id \in DOMAIN db :
        origin[id].via = "process_name"
            => /\ ~db[id].is_weather
               /\ db[id].city = None

\* C21: a delivery uses the reminder as stored when the timer fires: the text
\* send_reminder sends for a stored reminder that is not a weather reminder
\* carries the name the row has at that moment, also when the owner changed
\* the name while the task was waiting.
C21_DeliveryUsesStoredName ==
    [][\A i \in DOMAIN tasks :
           (/\ Fires(i)
            /\ Holds(tasks[i].rem)
            /\ ~tasks[i].rem.is_weather)
               => \A found \in BOOLEAN, taken \in BOOLEAN :
                      send_reminder(tasks'[i].rem, found, taken).text.about
                          = db[tasks[i].rem.id].name
      ]_vars

====
